---- MODULE Spec2Model ----
(***************************************************************************)
(* Model of repodiff.py: the interleaved diff built by                     *)
(* create_interleaved_diff from the zero-context output of                 *)
(* difflib.unified_diff, and the per-file loop of format_prompt.           *)
(*                                                                         *)
(* A text line is an element of Lines.  A rendered line f"{prefix}{text}"  *)
(* is the record [tag, text]: the prefix is always exactly one character,  *)
(* so the pair and the string determine each other.                        *)
(***************************************************************************)
EXTENDS Integers, Sequences, FiniteSets, TLC

\* ------------------------------------------------------------------ bounds
MaxLen == 3
MaxFiles == 2

Lines == {"a", "b", "c"}

RECURSIVE SeqsUpTo(_)
SeqsUpTo(n) ==
    IF n = 0 THEN {<<>>}
    ELSE LET shorter == SeqsUpTo(n - 1)
         IN  shorter \cup {Append(s, x) : s \in {t \in shorter : Len(t) = n - 1}, x \in Lines}

LineSeqs == SeqsUpTo(MaxLen)

\* Contents a file of the working copy (or of HEAD) may have in the
\* format_prompt runs.
FileTexts == {<<>>, <<"a">>, <<"a", "b">>, <<"a", "c">>}

Paths == 1..MaxFiles

\* ------------------------------------------------------- python primitives
\* seq[k] for a Python list and a zero-based index k; a negative k counts
\* from the end of the list.
PyIndexFromStart(s, k) == s[k + 1]
PyIndex(s, k) == IF k < 0 THEN s[Len(s) + k + 1] ELSE s[k + 1]

\* s[lo:hi] for 0 <= lo <= hi <= len(s)
Slice(s, lo, hi) == [k \in 1..(hi - lo) |-> s[lo + k]]

RECURSIVE Concat(_)
Concat(ss) == IF ss = <<>> THEN <<>> ELSE Head(ss) \o Concat(Tail(ss))

\* ------------------------------------------------- difflib.SequenceMatcher
\* Length of the longest common run a[i:i+k] = b[j:j+k] inside a[:ahi], b[:bhi].
RECURSIVE MatchLen(_, _, _, _, _, _)
MatchLen(a, b, i, j, ahi, bhi) ==
    IF i < ahi /\ j < bhi /\ a[i + 1] = b[j + 1]
    THEN 1 + MatchLen(a, b, i + 1, j + 1, ahi, bhi)
    ELSE 0

\* SequenceMatcher.find_longest_match without junk: of all maximal matching
\* blocks the one that starts earliest in a, and of those the one that
\* starts earliest in b; (alo, blo, 0) when nothing matches.
find_longest_match(a, b, alo, ahi, blo, bhi) ==
    LET cands == {<<i, j>> \in (alo..(ahi - 1)) \X (blo..(bhi - 1)) :
                     MatchLen(a, b, i, j, ahi, bhi) > 0}
    IN  IF cands = {} THEN <<alo, blo, 0>>
        ELSE LET len(c) == MatchLen(a, b, c[1], c[2], ahi, bhi)
                 best == CHOOSE c \in cands :
                            \A d \in cands :
                               \/ len(c) > len(d)
                               \/ len(c) = len(d) /\ c[1] < d[1]
                               \/ len(c) = len(d) /\ c[1] = d[1] /\ c[2] <= d[2]
             IN  <<best[1], best[2], len(best)>>

\* SequenceMatcher.get_matching_blocks, in increasing order, without the
\* sentinel: the longest match, then recursively the pieces to its left and
\* to its right.
RECURSIVE MatchingBlocks(_, _, _, _, _, _)
MatchingBlocks(a, b, alo, ahi, blo, bhi) ==
    LET m == find_longest_match(a, b, alo, ahi, blo, bhi)
        i == m[1]
        j == m[2]
        k == m[3]
    IN  IF k = 0 THEN <<>>
        ELSE (IF alo < i /\ blo < j THEN MatchingBlocks(a, b, alo, i, blo, j) ELSE <<>>)
             \o <<m>> \o
             (IF i + k < ahi /\ j + k < bhi
              THEN MatchingBlocks(a, b, i + k, ahi, j + k, bhi) ELSE <<>>)

\* The collapse of adjacent blocks done at the end of get_matching_blocks.
RECURSIVE CollapseBlocks(_)
CollapseBlocks(bs) ==
    IF Len(bs) < 2 THEN bs
    ELSE LET x == bs[1]
             y == bs[2]
         IN  IF x[1] + x[3] = y[1] /\ x[2] + x[3] = y[2]
             THEN CollapseBlocks(<<(<<x[1], x[2], x[3] + y[3]>>)>> \o Tail(Tail(bs)))
             ELSE <<x>> \o CollapseBlocks(Tail(bs))

get_matching_blocks(a, b) ==
    CollapseBlocks(MatchingBlocks(a, b, 0, Len(a), 0, Len(b)))
        \o << <<Len(a), Len(b), 0>> >>

Opcode(tag, i1, i2, j1, j2) == [tag |-> tag, i1 |-> i1, i2 |-> i2, j1 |-> j1, j2 |-> j2]

\* SequenceMatcher.get_opcodes: the walk over the matching blocks from the
\* cursor (i, j).
RECURSIVE OpcodesFrom(_, _, _)
OpcodesFrom(blocks, i, j) ==
    IF blocks = <<>> THEN <<>>
    ELSE LET ai == Head(blocks)[1]
             bj == Head(blocks)[2]
             size == Head(blocks)[3]
             tag == IF i < ai /\ j < bj THEN "replace"
                    ELSE IF i < ai THEN "delete"
                    ELSE IF j < bj THEN "insert"
                    ELSE ""
         IN  (IF tag # "" THEN <<Opcode(tag, i, ai, j, bj)>> ELSE <<>>)
             \o (IF size > 0 THEN <<Opcode("equal", ai, ai + size, bj, bj + size)>> ELSE <<>>)
             \o OpcodesFrom(Tail(blocks), ai + size, bj + size)

get_opcodes(a, b) == OpcodesFrom(get_matching_blocks(a, b), 0, 0)

\* SequenceMatcher.get_grouped_opcodes(0): with no context every equal run
\* ends a group, so each group carries exactly one non-equal opcode (between
\* empty equal opcodes), and a group of equal opcodes only is dropped.
get_grouped_opcodes(a, b) ==
    SelectSeq(get_opcodes(a, b), LAMBDA op : op.tag # "equal")

\* difflib._format_range_unified: "beginning" alone when the range has one
\* line, else "beginning,length", an empty range beginning at the line
\* before it.  The text is kept as the tuple of its comma-separated numbers.
format_range_unified(start, stop) ==
    LET beginning == start + 1
        length == stop - start
    IN  IF length = 1 THEN <<beginning>>
        ELSE IF length = 0 THEN <<beginning - 1, length>>
        ELSE <<beginning, length>>

\* One line of the unified diff.
DiffLine(tag, text, old_info, new_info) ==
    [tag |-> tag, text |-> text, old_info |-> old_info, new_info |-> new_info]

TaggedLines(tag, s) == [k \in 1..Len(s) |-> DiffLine(tag, s[k], <<>>, <<>>)]

HunkLines(a, b, op) ==
    <<DiffLine("@@", "", format_range_unified(op.i1, op.i2),
                         format_range_unified(op.j1, op.j2))>>
    \o (IF op.tag \in {"replace", "delete"} THEN TaggedLines("-", Slice(a, op.i1, op.i2)) ELSE <<>>)
    \o (IF op.tag \in {"replace", "insert"} THEN TaggedLines("+", Slice(b, op.j1, op.j2)) ELSE <<>>)

\* difflib.unified_diff(a, b, n=0, lineterm=""): nothing when there is no
\* group, else the two file header lines and the lines of every hunk.
unified_diff(a, b) ==
    LET groups == get_grouped_opcodes(a, b)
    IN  IF groups = <<>> THEN <<>>
        ELSE <<DiffLine("---", "", <<>>, <<>>), DiffLine("+++", "", <<>>, <<>>)>>
             \o Concat([g \in 1..Len(groups) |-> HunkLines(a, b, groups[g])])


\* ------------------------------------------------------------------- state
VARIABLES
    pc,             \* position in create_interleaved_diff (or "idle" outside it)
    old_lines,      \* the file at HEAD
    new_lines,      \* the file on disk
    diff_lines,     \* the unified diff still to be walked
    i,              \* index into diff_lines
    old_line_num,   \* zero-based cursor into old_lines
    new_line_num,   \* zero-based cursor into new_lines
    old_start,      \* fields of the last hunk header parsed
    old_count,
    new_start,
    new_count,
    result,         \* the interleaved lines emitted so far
    selected_files, \* format_prompt: the paths to put in the prompt
    binary_files,   \* format_prompt: the paths classified as binary
    exists,         \* os.path.exists of every path
    file_index,     \* format_prompt: position of its for loop in selected_files
    file_path,      \* format_prompt: the file of the current iteration
    parts,          \* format_prompt: the pieces of the prompt appended so far
    called          \* the paths create_interleaved_diff was called with

coreVars == <<pc, old_lines, new_lines, diff_lines, i, old_line_num, new_line_num,
              old_start, old_count, new_start, new_count, result>>
promptVars == <<selected_files, binary_files, exists, file_index, file_path, parts, called>>
vars == <<coreVars, promptVars>>

\* ------------------------------------------------- create_interleaved_diff
\* A line of the interleaved document: f"{prefix}{text}".
Line(tag, text) == [tag |-> tag, text |-> text]

KeptLine(text) == Line(" ", text)

\* [f"+{line}" for line in new_lines]
AllAdded(lines) == [k \in 1..Len(lines) |-> Line("+", lines[k])]

\* Mutant: the deleted file's lines get the prefix of added lines.
AllRemovedAsAdded(lines) == [k \in 1..Len(lines) |-> Line("+", lines[k])]

\* [f"-{line}" for line in old_lines]
AllRemoved(lines) == [k \in 1..Len(lines) |-> Line("-", lines[k])]

\* "if not old_lines and new_lines"
IsNewFile(old, new) == old = <<>> /\ new # <<>>

\* "if old_lines and not new_lines"
IsDeletedFile(old, new) == old # <<>> /\ new = <<>>

\* The "-a,b" / "+c,d" field of a hunk header: start and count when there is
\* a comma, else start with a count of 1.
ParseRange(info) ==
    IF Len(info) = 2 THEN [start |-> info[1], count |-> info[2]]
    ELSE [start |-> info[1], count |-> 1]

\* diff_lines[2:] when the diff has more than two lines
SkipFileHeader(d) == IF Len(d) > 2 THEN SubSeq(d, 3, Len(d)) ELSE d

\* Mutant: the one-based start is used as the zero-based cursor.
CursorOfOneBased(start) == start

\* The zero-based cursor a hunk header's one-based start is turned into.
CursorOf(start) == start - 1

\* Guard of the loop that fills the gap before a hunk.
GapGuard(o, n, ostart, nstart) == o < CursorOf(ostart) /\ n < CursorOf(nstart)

\* Mutant: the loop over the rest of the new file stops one line early.
TailGuardShort(n, new) == n < Len(new) - 1

\* Guard of the loop that emits the rest of the new file.
TailGuard(n, new) == n < Len(new)

\* The frame of create_interleaved_diff on entry, given what
\* get_file_diff_data returned.
EnterCore(old, new) ==
    /\ pc' = "entry"
    /\ old_lines' = old
    /\ new_lines' = new
    /\ diff_lines' = <<>>
    /\ i' = 0
    /\ old_line_num' = 0
    /\ new_line_num' = 0
    /\ old_start' = 0
    /\ old_count' = 0
    /\ new_start' = 0
    /\ new_count' = 0
    /\ result' = <<>>

\* Lines 211-213: a new file is returned as all added.
NewFile ==
    /\ pc = "entry"
    /\ IsNewFile(old_lines, new_lines)
    /\ result' = AllAdded(new_lines)
    /\ pc' = "done"
    /\ UNCHANGED <<old_lines, new_lines, diff_lines, i, old_line_num, new_line_num,
                   old_start, old_count, new_start, new_count, promptVars>>

\* Lines 215-217: a deleted file is returned as all removed.
DeletedFile ==
    /\ pc = "entry"
    /\ ~IsNewFile(old_lines, new_lines)
    /\ IsDeletedFile(old_lines, new_lines)
    /\ result' = AllRemoved(old_lines)
    /\ pc' = "done"
    /\ UNCHANGED <<old_lines, new_lines, diff_lines, i, old_line_num, new_line_num,
                   old_start, old_count, new_start, new_count, promptVars>>

\* Lines 219-237: the diff is computed, its file header dropped, and the
\* cursors start at 0.
ComputeDiff ==
    /\ pc = "entry"
    /\ ~IsNewFile(old_lines, new_lines)
    /\ ~IsDeletedFile(old_lines, new_lines)
    /\ diff_lines' = SkipFileHeader(unified_diff(old_lines, new_lines))
    /\ result' = <<>>
    /\ old_line_num' = 0
    /\ new_line_num' = 0
    /\ i' = 0
    /\ pc' = "loop"
    /\ UNCHANGED <<old_lines, new_lines, old_start, old_count, new_start, new_count,
                   promptVars>>

\* Lines 242-261: a hunk header is parsed.
ParseHeader ==
    /\ pc = "loop"
    /\ i < Len(diff_lines)
    /\ PyIndexFromStart(diff_lines, i).tag = "@@"
    /\ LET line == PyIndexFromStart(diff_lines, i)
           o == ParseRange(line.old_info)
           n == ParseRange(line.new_info)
       IN  /\ old_start' = o.start
           /\ old_count' = o.count
           /\ new_start' = n.start
           /\ new_count' = n.count
    /\ pc' = "gap"
    /\ UNCHANGED <<old_lines, new_lines, diff_lines, i, old_line_num, new_line_num,
                   result, promptVars>>

\* Lines 264-267: one unchanged line before the hunk.
GapStep ==
    /\ pc = "gap"
    /\ GapGuard(old_line_num, new_line_num, old_start, new_start)
    /\ result' = Append(result, KeptLine(PyIndex(old_lines, old_line_num)))
    /\ old_line_num' = old_line_num + 1
    /\ new_line_num' = new_line_num + 1
    /\ UNCHANGED <<pc, old_lines, new_lines, diff_lines, i,
                   old_start, old_count, new_start, new_count, promptVars>>

\* Lines 269-272: the cursors are set to the hunk's start.
Resync ==
    /\ pc = "gap"
    /\ ~GapGuard(old_line_num, new_line_num, old_start, new_start)
    /\ old_line_num' = CursorOf(old_start)
    /\ new_line_num' = CursorOf(new_start)
    /\ i' = i + 1
    /\ pc' = "loop"
    /\ UNCHANGED <<old_lines, new_lines, diff_lines,
                   old_start, old_count, new_start, new_count, result, promptVars>>

\* Lines 275-287: a removed, added or context line of the hunk.
BodyLine ==
    /\ pc = "loop"
    /\ i < Len(diff_lines)
    /\ PyIndexFromStart(diff_lines, i).tag # "@@"
    /\ LET line == PyIndexFromStart(diff_lines, i)
       IN  IF line.tag = "-"
           THEN /\ result' = Append(result, Line(line.tag, line.text))
                /\ old_line_num' = old_line_num + 1
                /\ new_line_num' = new_line_num
           ELSE IF line.tag = "+"
           THEN /\ result' = Append(result, Line(line.tag, line.text))
                /\ old_line_num' = old_line_num
                /\ new_line_num' = new_line_num + 1
           ELSE /\ result' = Append(result, KeptLine(line.text))
                /\ old_line_num' = old_line_num + 1
                /\ new_line_num' = new_line_num + 1
    /\ i' = i + 1
    /\ UNCHANGED <<pc, old_lines, new_lines, diff_lines,
                   old_start, old_count, new_start, new_count, promptVars>>

\* Line 238: the walk over the diff ends.
EndLoop ==
    /\ pc = "loop"
    /\ ~(i < Len(diff_lines))
    /\ pc' = "tail"
    /\ UNCHANGED <<old_lines, new_lines, diff_lines, i, old_line_num, new_line_num,
                   old_start, old_count, new_start, new_count, result, promptVars>>

\* Lines 290-292: one remaining line of the new file.
TailStep ==
    /\ pc = "tail"
    /\ TailGuard(new_line_num, new_lines)
    /\ result' = Append(result, KeptLine(PyIndex(new_lines, new_line_num)))
    /\ new_line_num' = new_line_num + 1
    /\ UNCHANGED <<pc, old_lines, new_lines, diff_lines, i, old_line_num,
                   old_start, old_count, new_start, new_count, promptVars>>

\* Line 294: the document is returned.
Return ==
    /\ pc = "tail"
    /\ ~TailGuard(new_line_num, new_lines)
    /\ pc' = "done"
    /\ UNCHANGED <<old_lines, new_lines, diff_lines, i, old_line_num, new_line_num,
                   old_start, old_count, new_start, new_count, result, promptVars>>

CoreStep ==
    \/ NewFile
    \/ DeletedFile
    \/ ComputeDiff
    \/ ParseHeader
    \/ GapStep
    \/ Resync
    \/ BodyLine
    \/ EndLoop
    \/ TailStep
    \/ Return

\* create_interleaved_diff on every pair of line sequences.
Init ==
    /\ pc = "entry"
    /\ old_lines \in LineSeqs
    /\ new_lines \in LineSeqs
    /\ diff_lines = <<>>
    /\ i = 0
    /\ old_line_num = 0
    /\ new_line_num = 0
    /\ old_start = 0
    /\ old_count = 0
    /\ new_start = 0
    /\ new_count = 0
    /\ result = <<>>
    /\ selected_files = <<>>
    /\ binary_files = {}
    /\ exists = [p \in Paths |-> TRUE]
    /\ file_index = 0
    /\ file_path = 0
    /\ parts = <<>>
    /\ called = <<>>

Next == CoreStep

Spec == Init /\ [][Next]_vars


\* ----------------------------------------------------------- format_prompt
\* One element of the list "parts"; the language tag of a fence is a
\* function of the path, which stands for it.
Part(kind, path, lines) == [kind |-> kind, path |-> path, lines |-> lines]

\* Mutant: the binary check is missing.
IsBinaryNever(path, binaries) == FALSE

\* "if file_path in binary_files"
IsBinary(path, binaries) == path \in binaries

\* "if not interleaved_diff": "\n".join(result) is the empty string only for
\* an empty result, every line of it having at least its prefix.
IsEmptyText(lines) == Len(lines) = 0

\* Lines 378-386: the heading and the fenced diff of one file.
Block(path, lines) ==
    <<Part("heading", path, <<>>),
      Part("fence_open", path, <<>>),
      Part("diff", path, lines),
      Part("fence_close", path, <<>>)>>

\* Lines 356-366: what parts holds when the loop starts, with a README or
\* without one.
PartsAtStart(readme) ==
    (IF readme THEN <<Part("readme_title", 0, <<>>),
                      Part("readme", 0, <<>>),
                      Part("rule", 0, <<>>)>>
     ELSE <<>>)
    \o <<Part("files_title", 0, <<>>)>>

\* The selections of the checklist: the paths ticked, in listing order.
RECURSIVE Selections(_)
Selections(n) ==
    IF n = 0 THEN {<<>>}
    ELSE LET rest == Selections(n - 1)
         IN  rest \cup {Append(s, n) : s \in rest}

\* Lines 389-398: the notice of the renames whose new path was selected.
RECURSIVE RenameNotes(_, _)
RenameNotes(renamed, selected) ==
    IF renamed = {} THEN <<>>
    ELSE LET r == CHOOSE x \in renamed : \A y \in renamed : x <= y
         IN  (IF \E k \in 1..Len(selected) : selected[k] = r
              THEN <<Part("rename", r, <<>>)>> ELSE <<>>)
             \o RenameNotes(renamed \ {r}, selected)

RenameNotice(renamed, selected) ==
    LET notes == RenameNotes(renamed, selected)
    IN  IF notes = <<>> THEN <<>> ELSE <<Part("renames_title", 0, <<>>)>> \o notes

\* Lines 401-405: the notice of the selected files skipped as binary.
BinaryNotice(selected, binaries) ==
    LET skipped == SelectSeq(selected, LAMBDA f : f \in binaries)
    IN  IF skipped = <<>> THEN <<>>
        ELSE <<Part("binaries_title", 0, <<>>)>>
             \o [k \in 1..Len(skipped) |-> Part("binary", skipped[k], <<>>)]

\* Lines 368-371: a binary file is skipped.
SkipBinary ==
    /\ pc = "idle"
    /\ file_index < Len(selected_files)
    /\ IsBinary(PyIndexFromStart(selected_files, file_index), binary_files)
    /\ file_index' = file_index + 1
    /\ UNCHANGED <<coreVars, selected_files, binary_files, exists, file_path, parts, called>>

\* Lines 374 and 143-175: create_interleaved_diff is called, and reads the
\* file at HEAD and on disk; a file that is not on disk has no new lines.
CallCore ==
    /\ pc = "idle"
    /\ file_index < Len(selected_files)
    /\ ~IsBinary(PyIndexFromStart(selected_files, file_index), binary_files)
    /\ \E head \in FileTexts, disk \in FileTexts :
          LET path == PyIndexFromStart(selected_files, file_index)
              old == head
              new == IF exists[path] THEN disk ELSE <<>>
          IN  /\ EnterCore(old, new)
              /\ file_path' = path
              /\ called' = Append(called, [path |-> path, old |-> old, new |-> new])
    /\ UNCHANGED <<selected_files, binary_files, exists, file_index, parts>>

\* Lines 375-376: an empty document gets no block.
SkipEmpty ==
    /\ pc = "done"
    /\ file_index < Len(selected_files)
    /\ IsEmptyText(result)
    /\ file_index' = file_index + 1
    /\ pc' = "idle"
    /\ UNCHANGED <<old_lines, new_lines, diff_lines, i, old_line_num, new_line_num,
                   old_start, old_count, new_start, new_count, result,
                   selected_files, binary_files, exists, file_path, parts, called>>

\* Lines 378-386: the block of the file is appended.
EmitBlock ==
    /\ pc = "done"
    /\ file_index < Len(selected_files)
    /\ ~IsEmptyText(result)
    /\ parts' = parts \o Block(file_path, result)
    /\ file_index' = file_index + 1
    /\ pc' = "idle"
    /\ UNCHANGED <<old_lines, new_lines, diff_lines, i, old_line_num, new_line_num,
                   old_start, old_count, new_start, new_count, result,
                   selected_files, binary_files, exists, file_path, called>>

\* Lines 388-407: after the loop the notices are appended and the prompt
\* is returned.
Finish ==
    /\ pc = "idle"
    /\ ~(file_index < Len(selected_files))
    /\ \E renamed \in SUBSET Paths :
          parts' = parts \o RenameNotice(renamed, selected_files)
                         \o BinaryNotice(selected_files, binary_files)
    /\ pc' = "returned"
    /\ UNCHANGED <<old_lines, new_lines, diff_lines, i, old_line_num, new_line_num,
                   old_start, old_count, new_start, new_count, result,
                   selected_files, binary_files, exists, file_index, file_path, called>>

\* format_prompt at the start of its loop, for every selection, every set of
\* binary files and every set of files missing from disk; a file found
\* binary by get_changed_files (lines 129-139) is on disk.
InitPrompt ==
    /\ pc = "idle"
    /\ old_lines = <<>>
    /\ new_lines = <<>>
    /\ diff_lines = <<>>
    /\ i = 0
    /\ old_line_num = 0
    /\ new_line_num = 0
    /\ old_start = 0
    /\ old_count = 0
    /\ new_start = 0
    /\ new_count = 0
    /\ result = <<>>
    /\ selected_files \in Selections(MaxFiles) \ {<<>>}
    /\ binary_files \in SUBSET Paths
    /\ exists \in [Paths -> BOOLEAN]
    /\ \A p \in binary_files : exists[p]
    /\ file_index = 0
    /\ file_path = 0
    /\ \E readme \in BOOLEAN : parts = PartsAtStart(readme)
    /\ called = <<>>

NextPrompt ==
    \/ CoreStep
    \/ SkipBinary
    \/ CallCore
    \/ SkipEmpty
    \/ EmitBlock
    \/ Finish

SpecPrompt == InitPrompt /\ [][NextPrompt]_vars


\* ------------------------------------------------------------- properties
\* The lines s with the prefix tag, as lines of a document.
Tagged(tag, s) == [k \in 1..Len(s) |-> [tag |-> tag, text |-> s[k]]]

\* The texts of the lines of doc whose prefix is in tags, in order.
Projection(doc, tags) ==
    LET kept == SelectSeq(doc, LAMBDA l : l.tag \in tags)
    IN  [k \in 1..Len(kept) |-> kept[k].text]

\* The document the opcodes of the diff describe: equal runs as kept, and
\* for a change its old lines as removed followed by its new lines as added.
OpcodeLines(op) ==
    IF op.tag = "equal" THEN Tagged(" ", Slice(old_lines, op.i1, op.i2))
    ELSE Tagged("-", Slice(old_lines, op.i1, op.i2))
         \o Tagged("+", Slice(new_lines, op.j1, op.j2))

OpcodeDocument ==
    LET ops == get_opcodes(old_lines, new_lines)
    IN  Concat([k \in 1..Len(ops) |-> OpcodeLines(ops[k])])

HunkTags == {op.tag : op \in {get_opcodes(old_lines, new_lines)[k] :
                                 k \in 1..Len(get_opcodes(old_lines, new_lines))}}
               \ {"equal"}

\* C1: when create_interleaved_diff returns, the Kept and Removed lines of
\* the document, in order and without their prefix, are the old sequence.
RoundTripOld ==
    pc = "done" => Projection(result, {" ", "-"}) = old_lines

\* C2: when create_interleaved_diff returns, the Kept and Added lines of the
\* document, in order and without their prefix, are the new sequence.
RoundTripNew ==
    pc = "done" => Projection(result, {" ", "+"}) = new_lines

\* C3: when create_interleaved_diff returns, the document has len(old) Kept
\* or Removed lines and len(new) Kept or Added lines.
NoSilentLineLoss ==
    pc = "done" =>
        /\ Cardinality({k \in 1..Len(result) : result[k].tag \in {" ", "-"}}) = Len(old_lines)
        /\ Cardinality({k \in 1..Len(result) : result[k].tag \in {" ", "+"}}) = Len(new_lines)

\* C4: for equal old and new the hunk stream is empty, and the document
\* returned is every line of the file, in order, as Kept.
Identity ==
    old_lines = new_lines =>
        /\ pc # "entry" => diff_lines = <<>>
        /\ pc = "done" => result = Tagged(" ", old_lines)

IdentityWitness ==
    /\ pc = "done"
    /\ old_lines = new_lines
    /\ Len(old_lines) >= 2
    /\ Len(result) = Len(old_lines)

\* C5: when exactly one of old and new is empty the hunk loop and the
\* trailing loop are never entered, and the document returned is the
\* non-empty sequence, all Added for an empty old and all Removed for an
\* empty new.
WholeFile ==
    (old_lines = <<>>) # (new_lines = <<>>) =>
        /\ pc \in {"entry", "done"}
        /\ diff_lines = <<>>
        /\ i = 0 /\ old_line_num = 0 /\ new_line_num = 0
        /\ pc = "done" =>
              result = IF old_lines = <<>> THEN Tagged("+", new_lines)
                       ELSE Tagged("-", old_lines)

WholeFileWitness ==
    /\ pc = "done"
    /\ new_lines = <<>>
    /\ Len(old_lines) >= 2
    /\ Len(result) = Len(old_lines)

\* C6: when new is old with a non-empty block inserted after its first k
\* lines and the diff is one insert-only hunk at that place, the document
\* returned is the first k old lines as Kept, the block as Added, and the
\* other old lines as Kept.
PureInsertion ==
    \A k \in 0..Len(old_lines), m \in 1..Len(new_lines) :
        ( /\ pc = "done"
          /\ old_lines # <<>>
          /\ Len(new_lines) = Len(old_lines) + m
          /\ new_lines = Slice(old_lines, 0, k) \o Slice(new_lines, k, k + m)
                             \o Slice(old_lines, k, Len(old_lines))
          /\ get_grouped_opcodes(old_lines, new_lines)
                = <<Opcode("insert", k, k, k, k + m)>> )
        => result = Tagged(" ", Slice(old_lines, 0, k))
                      \o Tagged("+", Slice(new_lines, k, k + m))
                      \o Tagged(" ", Slice(old_lines, k, Len(old_lines)))

\* C7: when every hunk removes at least one line and adds at least one
\* line, the document returned lists, in file order, every unchanged stretch
\* once as Kept and every hunk as its old lines Removed followed by its new
\* lines Added.
Replacement ==
    (pc = "done" /\ HunkTags = {"replace"}) => result = OpcodeDocument

ReplacementWitness ==
    /\ pc = "done"
    /\ HunkTags = {"replace"}
    /\ Len(get_grouped_opcodes(old_lines, new_lines)) >= 2
    /\ \E k \in 1..Len(result) : result[k].tag = " "

\* C9: in the hunk loop and in the trailing loop both cursors stay within
\* 0..len of their sequence, and a line read to fill the gap before a hunk is
\* read at an index of old.
CursorBounds ==
    pc \in {"loop", "gap", "tail"} =>
        /\ 0 <= old_line_num /\ old_line_num <= Len(old_lines)
        /\ 0 <= new_line_num /\ new_line_num <= Len(new_lines)
        /\ (pc = "gap" /\ old_line_num < old_start - 1 /\ new_line_num < new_start - 1)
              => old_line_num \in 0..(Len(old_lines) - 1)

\* C10: a line emitted as Kept to fill the gap before a hunk is the line at
\* the new cursor too.
KeptAligned ==
    (pc = "gap" /\ old_line_num < old_start - 1 /\ new_line_num < new_start - 1)
        => /\ new_line_num \in 0..(Len(new_lines) - 1)
           /\ PyIndex(old_lines, old_line_num) = new_lines[new_line_num + 1]

\* The blocks of a path in the prompt: a heading followed by its fenced diff.
BlocksOf(p) ==
    {k \in 1..(Len(parts) - 3) :
        /\ parts[k].kind = "heading" /\ parts[k].path = p
        /\ parts[k + 1].kind = "fence_open"
        /\ parts[k + 2].kind = "diff"
        /\ parts[k + 3].kind = "fence_close"}

CallsOf(p) == {k \in 1..Len(called) : called[k].path = p}

Selected == {selected_files[k] : k \in 1..Len(selected_files)}

====
